---- MODULE Spec2Model ----
(***************************************************************************)
(* Model of the survey tabulation core: TabGenerator (tab_generator.py)    *)
(* and the batch driver generate_tables (table_service.py).                *)
(*                                                                         *)
(* A dataset is a record [columns, rows]; a row maps every column to a     *)
(* number or to NaN.  A question configuration is a function from field    *)
(* names to values, a banner segment a record [id, label, condition].      *)
(* Python values whose type the code inspects are carried with a type tag  *)
(* [t, v]: t is "int", "str", "list" or "tuple".  A filter expression is   *)
(* a record [kind, col, val]: None, the empty string, "col == val", or a   *)
(* string pandas cannot parse.                                             *)
(*                                                                         *)
(* generate_tables runs one loop iteration per step.  A caller that holds  *)
(* TabGenerator objects itself (tgs) runs generate_crosstab one banner     *)
(* segment per step, so that calls on several generators interleave.       *)
(***************************************************************************)
EXTENDS Integers, Sequences, FiniteSets, TLC

VARIABLES data, questions, banner_config, pc, i, results, err, returned, files, tgs

vars == <<data, questions, banner_config, pc, i, results, err, returned, files, tgs>>

-----------------------------------------------------------------------------
(* Bounds of the explored inputs. *)

MaxRows == 2

MaxEntries == 2

MaxQuestions == 2

-----------------------------------------------------------------------------
(* Values. *)

\* np.nan: a missing cell.  No code and no cell value of the model is negative.
NaN == -1

None == [t |-> "none", v |-> 0]

PyInt(n) == [t |-> "int", v |-> n]

PyStr(s) == [t |-> "str", v |-> s]

PyList(s) == [t |-> "list", v |-> s]

PyTuple(s) == [t |-> "tuple", v |-> s]

\* Filter / condition expressions handed to DataFrame.query.
NoExpr == [kind |-> "none", col |-> "", val |-> 0]

EmptyExpr == [kind |-> "empty", col |-> "", val |-> 0]

EqExpr(c, n) == [kind |-> "eq", col |-> c, val |-> n]

BadExpr == [kind |-> "malformed", col |-> "", val |-> 0]

\* Python truthiness of an expression value: None and "" are falsy.
Truthy(e) == e.kind \notin {"none", "empty"}

-----------------------------------------------------------------------------
(* Helpers over sequences and dictionaries. *)

RECURSIVE SumSeq(_)
SumSeq(s) == IF s = <<>> THEN 0 ELSE Head(s) + SumSeq(Tail(s))

\* d[k] = v of a Python dict.
DictSet(d, k, v) == [x \in (DOMAIN d) \cup {k} |-> IF x = k THEN v ELSE d[x]]

EmptyDict == [x \in {} |-> 0]

\* d.get(k, default)
DictGet(d, k, default) == IF k \in DOMAIN d THEN d[k] ELSE default

\* The number of rows r of the sequence rows with P(r).
CountRows(rows, P(_)) == Cardinality({k \in DOMAIN rows : P(rows[k])})

-----------------------------------------------------------------------------
(* Formatting. *)

\* PctHundredths cut to the hundredth below instead of rounded.
PctHundredthsTruncated(count, base_n) ==
    IF base_n > 0 THEN (count * 10000) \div base_n ELSE 0

\* round(count / base_n * 100, 2) in hundredths of a percent (0 when base_n = 0).
\* Over the bounded integers of the model no quotient is a tie, so the nearest
\* hundredth is floor(x + 1/2).
PctHundredths(count, base_n) ==
    IF base_n > 0 THEN (2 * count * 10000 + base_n) \div (2 * base_n) ELSE 0

\* f"{x:.2f}" of a non-negative x given in hundredths.
Fmt2(h) == ToString(h \div 100) \o "." \o ToString((h % 100) \div 10) \o ToString(h % 10)

\* f"{pct:.2f}%"
PctString(count, base_n) == Fmt2(PctHundredths(count, base_n)) \o "%"

-----------------------------------------------------------------------------
(* DataFrame operations used by the generator. *)

\* A result that carries a propagating exception.
Raise(kind) == [err |-> kind, rows |-> <<>>]

\* DataFrame.query(expr): the rows that satisfy "col == val".  A string that does
\* not parse and a name that is no column raise, whatever the rows are.
Query(columns, rows, expr) ==
    IF expr.kind = "malformed" THEN Raise("SyntaxError")
    ELSE IF expr.col \notin columns THEN Raise("UndefinedVariableError")
    ELSE [err |-> "none",
          rows |-> SelectSeq(rows, LAMBDA r : r[expr.col] # NaN /\ r[expr.col] = expr.val)]

\* Series == code: the rows counted by the native comparison of a numeric column
\* with a code.  A string or None never equals a number; a list-like compares
\* element by element and raises when its length is not the column's.
NativeEqCount(rows, col, code) ==
    IF code.t = "int"
    THEN [err |-> "none", n |-> CountRows(rows, LAMBDA r : r[col] # NaN /\ r[col] = code.v)]
    ELSE IF code.t \in {"tuple", "list"}
    THEN IF Len(code.v) = 1
         THEN [err |-> "none",
               n |-> CountRows(rows, LAMBDA r : r[col] # NaN /\ r[col] = code.v[1])]
         ELSE IF Len(code.v) = Len(rows)
         THEN [err |-> "none",
               n |-> Cardinality({k \in DOMAIN rows :
                                    rows[k][col] # NaN /\ rows[k][col] = code.v[k]})]
         ELSE [err |-> "ValueError", n |-> 0]
    ELSE [err |-> "none", n |-> 0]

\* IsinCount with one match counted per listed code, repeated codes included.
IsinCountPerCode(rows, col, payload) ==
    SumSeq([m \in DOMAIN payload |->
              CountRows(rows, LAMBDA r : r[col] # NaN /\ r[col] = payload[m])])

\* Series.isin(payload).sum()
IsinCount(rows, col, payload) ==
    CountRows(rows, LAMBDA r :
        r[col] # NaN /\ \E k \in DOMAIN payload : payload[k] = r[col])

\* (df[col] == 1).sum()
OnesCount(rows, col) == CountRows(rows, LAMBDA r : r[col] = 1)

\* df[col].sum(): missing cells are skipped.
ColumnSum(rows, col) ==
    SumSeq([k \in DOMAIN rows |-> IF rows[k][col] = NaN THEN 0 ELSE rows[k][col]])

\* df[present].sum().sum(): one term per listed column, repeated names included.
ColumnsSum(rows, present) == SumSeq([k \in DOMAIN present |-> ColumnSum(rows, present[k])])

-----------------------------------------------------------------------------
(* TabGenerator.__init__ *)

RECURSIVE InitError(_)
\* The exception raised while building codes_dict: a row that does not unpack
\* into three values, or a 'code' payload that cannot be a dictionary key.
InitError(ds) ==
    IF ds = <<>> THEN "none"
    ELSE IF Len(Head(ds)) # 3 THEN "ValueError"
    ELSE IF Head(ds)[1] = "code" /\ Head(ds)[3].t = "list" THEN "TypeError"
    ELSE InitError(Tail(ds))

RECURSIVE codes_dict(_)
\* The keys of codes_dict in insertion order: the payloads of the 'code' rows.
codes_dict(ds) ==
    IF ds = <<>> THEN <<>>
    ELSE LET rest == codes_dict(SubSeq(ds, 1, Len(ds) - 1))
             e == ds[Len(ds)]
         IN IF e[1] = "code" /\ ~(\E k \in DOMAIN rest : rest[k].t = e[3].t /\ rest[k].v = e[3].v)
            THEN Append(rest, e[3]) ELSE rest

\* The 'code' payloads that are strings, in declared order.
multi_vars(ds) ==
    LET codes == SelectSeq(ds, LAMBDA e : e[1] = "code" /\ e[3].t = "str")
    IN [k \in DOMAIN codes |-> codes[k][3].v]

_get_multi_columns(ds) ==
    IF multi_vars(ds) # <<>> THEN multi_vars(ds)
    ELSE LET ks == SelectSeq(codes_dict(ds), LAMBDA p : p.t = "str")
         IN [k \in DOMAIN ks |-> ks[k].v]

-----------------------------------------------------------------------------
(* TabGenerator.generate_crosstab: the rows of one display_structure entry. *)

\* The state of the loop over display_structure within one segment.
Acc(e, d, t, u) == [err |-> e, data |-> d, total |-> t, used |-> u]

\* Counted with the count of a net added to total_count as well.
CountedNetInTotal(acc, base_n, label, c, is_code) ==
    IF c.err # "none" THEN Acc(c.err, acc.data, acc.total, acc.used)
    ELSE Acc("none", DictSet(acc.data, label, <<c.n, PctString(c.n, base_n)>>),
             acc.total + c.n,
             IF is_code THEN acc.used ELSE acc.used \cup {label})

\* banner_data[banner_id][label_text] = [count, f"{pct:.2f}%"], with the count
\* added to total_count for a code and the label added to used_labels for a net.
Counted(acc, base_n, label, c, is_code) ==
    IF c.err # "none" THEN Acc(c.err, acc.data, acc.total, acc.used)
    ELSE Acc("none", DictSet(acc.data, label, <<c.n, PctString(c.n, base_n)>>),
             IF is_code THEN acc.total + c.n ELSE acc.total,
             IF is_code THEN acc.used ELSE acc.used \cup {label})

\* df_filtered[self.question_var]: KeyError when the frame has no such column.
SingleColumn(q, columns) == q["question_var"].v \in columns

\* question_type == "single", row_type == "code"
SingleCode(q, columns, rows, base_n, entry, acc) ==
    Counted(acc, base_n, entry[2],
            IF SingleColumn(q, columns)
            THEN NativeEqCount(rows, q["question_var"].v, entry[3])
            ELSE [err |-> "KeyError", n |-> 0],
            TRUE)

\* question_type == "single", row_type == "net" with a list payload
SingleNet(q, columns, rows, base_n, entry, acc) ==
    Counted(acc, base_n, entry[2],
            IF SingleColumn(q, columns)
            THEN [err |-> "none", n |-> IsinCount(rows, q["question_var"].v, entry[3].v)]
            ELSE [err |-> "KeyError", n |-> 0],
            FALSE)

\* question_type == "multi", row_type == "code"
MultiCode(columns, rows, base_n, entry, acc) ==
    Counted(acc, base_n, entry[2],
            [err |-> "none",
             n |-> IF entry[3].t = "str" /\ entry[3].v \in columns
                   THEN OnesCount(rows, entry[3].v) ELSE 0],
            TRUE)

\* present = [c for c in payload if c in df_filtered.columns]
Present(columns, payload) == SelectSeq(payload, LAMBDA c : c \in columns)

\* question_type == "multi", row_type == "net" with a list payload
MultiNet(columns, rows, base_n, entry, acc) ==
    Counted(acc, base_n, entry[2],
            [err |-> "none", n |-> ColumnsSum(rows, Present(columns, entry[3].v))],
            FALSE)

\* One iteration of "for row_type, label_text, payload in display_structure".
AggregateEntry(q, columns, rows, base_n, entry, acc) ==
    IF q["question_type"] = "single"
    THEN IF entry[1] = "code" THEN SingleCode(q, columns, rows, base_n, entry, acc)
         ELSE IF entry[1] = "net" /\ entry[3].t = "list"
         THEN SingleNet(q, columns, rows, base_n, entry, acc)
         ELSE acc
    ELSE IF q["question_type"] = "multi"
    THEN IF entry[1] = "code" THEN MultiCode(columns, rows, base_n, entry, acc)
         ELSE IF entry[1] = "net" /\ entry[3].t = "list"
         THEN MultiNet(columns, rows, base_n, entry, acc)
         ELSE acc
    ELSE acc

RECURSIVE AggregateRows(_, _, _, _, _, _)
\* The loop over display_structure, stopped by the first exception.
AggregateRows(q, columns, rows, base_n, ds, acc) ==
    IF ds = <<>> \/ acc.err # "none" THEN acc
    ELSE AggregateRows(q, columns, rows, base_n, Tail(ds),
                       AggregateEntry(q, columns, rows, base_n, Head(ds), acc))

-----------------------------------------------------------------------------
(* TabGenerator.calculate_sigma_and_no_answer *)

\* answered_mask.sum() of a multi question: with no indicator column declared,
\* the rows with any cell present; otherwise the rows with any declared column
\* equal to 1.  Selecting a column the frame does not have raises KeyError.
AnsweredCount(columns, rows, multi_cols) ==
    IF multi_cols = <<>>
    THEN [err |-> "none", n |-> CountRows(rows, LAMBDA r : \E c \in columns : r[c] # NaN)]
    ELSE IF \E k \in DOMAIN multi_cols : multi_cols[k] \notin columns
    THEN [err |-> "KeyError", n |-> 0]
    ELSE [err |-> "none",
          n |-> CountRows(rows, LAMBDA r : \E k \in DOMAIN multi_cols : r[multi_cols[k]] = 1)]

\* base_n - answered_mask.sum()
Unanswered(base_n, a) == [err |-> a.err, n |-> base_n - a.n]

\* NoAnswerCount with the single-question difference left unclamped.
NoAnswerCountUnclamped(columns, rows, base_n, total_count, question_type, multi_cols) ==
    IF base_n = 0 THEN [err |-> "none", n |-> 0]
    ELSE IF question_type = "single"
    THEN [err |-> "none", n |-> base_n - total_count]
    ELSE IF question_type = "multi"
    THEN Unanswered(base_n, AnsweredCount(columns, rows, multi_cols))
    ELSE [err |-> "none", n |-> 0]

NoAnswerCount(columns, rows, base_n, total_count, question_type, multi_cols) ==
    IF base_n = 0 THEN [err |-> "none", n |-> 0]
    ELSE IF question_type = "single"
    THEN [err |-> "none", n |-> IF base_n - total_count > 0 THEN base_n - total_count ELSE 0]
    ELSE IF question_type = "multi"
    THEN Unanswered(base_n, AnsweredCount(columns, rows, multi_cols))
    ELSE [err |-> "none", n |-> 0]

\* The rows "No Answer" (when its count is positive) and "Sigma".
SigmaRows(base_n, total_count, na) ==
    [err |-> na.err,
     result |-> DictSet(IF na.n > 0
                        THEN DictSet(EmptyDict, "No Answer", <<na.n, PctString(na.n, base_n)>>)
                        ELSE EmptyDict,
                        "Sigma",
                        <<total_count + na.n, PctString(total_count + na.n, base_n)>>)]

calculate_sigma_and_no_answer(columns, rows, base_n, total_count, question_type, multi_cols) ==
    SigmaRows(base_n, total_count,
              NoAnswerCount(columns, rows, base_n, total_count, question_type, multi_cols))

-----------------------------------------------------------------------------
(* TabGenerator.calculate_stats *)

\* f"{x:.2f}" of sqrt(num / den): the hundredth nearest to 100 * sqrt(num / den).
FmtSqrt(num, den, top) ==
    Fmt2(CHOOSE h \in 0..top :
            /\ h = 0 \/ (2 * h - 1) * (2 * h - 1) * den <= 40000 * num
            /\ (2 * h + 1) * (2 * h + 1) * den > 40000 * num)

\* The four formatted statistics from the count n, the sum, the sum of squares
\* and the sorted present values of a column; "nan" where pandas yields NaN.
StatsOf(n, sum, sumsq, sorted) ==
    [mean |-> IF n = 0 THEN "nan" ELSE Fmt2((200 * sum + n) \div (2 * n)),
     std |-> IF n < 2 THEN "nan"
             ELSE FmtSqrt(n * sumsq - sum * sum, n * (n - 1), 100 * (sum + 1)),
     sem |-> IF n < 2 THEN "nan"
             ELSE FmtSqrt(n * sumsq - sum * sum, n * n * (n - 1), 100 * (sum + 1)),
     median |-> IF n = 0 THEN "nan"
                ELSE IF n % 2 = 1 THEN Fmt2(100 * sorted[(n + 1) \div 2])
                ELSE Fmt2(50 * (sorted[n \div 2] + sorted[n \div 2 + 1]))]

PresentStats(present) ==
    StatsOf(Len(present), SumSeq(present),
            SumSeq([k \in DOMAIN present |-> present[k] * present[k]]),
            SortSeq(present, LAMBDA a, b : a < b))

\* mean(), std() (ddof = 1), sem() and median() of a column skip missing cells.
ColumnStats(rows, col) ==
    PresentStats(SelectSeq([k \in DOMAIN rows |-> rows[k][col]], LAMBDA x : x # NaN))

\* The label "Std.err" carries the standard deviation and "Std.dev" the standard
\* error, as in the source.
StatsRows(st) ==
    DictSet(DictSet(DictSet(DictSet(EmptyDict,
        "Mean", <<st.mean, "">>),
        "Std.err", <<st.std, "">>),
        "Std.dev", <<st.sem, "">>),
        "Median", <<st.median, "">>)

calculate_stats(mean_var, columns, rows) ==
    IF mean_var.t = "str" /\ mean_var.v # "" /\ mean_var.v \in columns
    THEN StatsRows(ColumnStats(rows, mean_var.v))
    ELSE EmptyDict

-----------------------------------------------------------------------------
(* TabGenerator.generate_crosstab *)

\* The TabGenerator built by __init__ from a dataset and a question's fields.
TabGenerator(first_data, q, table_number) ==
    [df |-> first_data,
     question_var |-> q["question_var"],
     display_structure |-> q["display_structure"],
     question_type |-> q["question_type"],
     mean |-> q["mean_var"],
     filter_condition |-> q["base_filter"],
     show_sigma |-> q["show_sigma"],
     table_number |-> table_number]

\* ConditionRows with the segment's condition left unapplied.
ConditionRowsIgnored(columns, df_base_filter, condition) == df_base_filter

\* df_filtered: the condition applied to the rows left by base_filter.
ConditionRows(columns, df_base_filter, condition) ==
    IF df_base_filter.err # "none" THEN df_base_filter
    ELSE IF Truthy(condition) THEN Query(columns, df_base_filter.rows, condition)
    ELSE df_base_filter

\* SegmentRows with base_filter left unapplied.
SegmentRowsUnfiltered(tg, banner) ==
    ConditionRows(tg.df.columns, [err |-> "none", rows |-> tg.df.rows], banner.condition)

\* The subset of one segment: base_filter, then the segment's condition.
SegmentRows(tg, banner) ==
    ConditionRows(tg.df.columns,
                  IF Truthy(tg.filter_condition)
                  THEN Query(tg.df.columns, tg.df.rows, tg.filter_condition)
                  ELSE [err |-> "none", rows |-> tg.df.rows],
                  banner.condition)

\* sigma_data of one segment (empty when show_sigma is off).
SigmaData(tg, rows, base_n, total_count) ==
    IF tg.show_sigma
    THEN calculate_sigma_and_no_answer(tg.df.columns, rows, base_n, total_count,
                                       tg.question_type,
                                       _get_multi_columns(tg.display_structure))
    ELSE [err |-> "none", result |-> EmptyDict]

\* dict.update in insertion order: the entries of upd override those of d.
DictUpdate(d, upd) ==
    [x \in (DOMAIN d) \cup (DOMAIN upd) |-> IF x \in DOMAIN upd THEN upd[x] ELSE d[x]]

SegmentFailed(kind) == [err |-> kind, base_n |-> 0, data |-> EmptyDict, used |-> {}]

\* banner_data[banner_id] after sigma_data and stats_data are copied into it.
Derived(base_n, agg, sigma, stats) ==
    IF sigma.err # "none" THEN SegmentFailed(sigma.err)
    ELSE [err |-> "none", base_n |-> base_n,
          data |-> DictUpdate(DictUpdate(agg.data, sigma.result), stats),
          used |-> agg.used \cup (DOMAIN sigma.result) \cup (DOMAIN stats)]

Aggregated(tg, rows, base_n, agg) ==
    IF agg.err # "none" THEN SegmentFailed(agg.err)
    ELSE Derived(base_n, agg, SigmaData(tg, rows, base_n, agg.total),
                 calculate_stats(tg.mean, tg.df.columns, rows))

Filtered(tg, df_filtered) ==
    IF df_filtered.err # "none" THEN SegmentFailed(df_filtered.err)
    ELSE Aggregated(tg, df_filtered.rows, Len(df_filtered.rows),
                    AggregateRows(tg, tg.df.columns, df_filtered.rows, Len(df_filtered.rows),
                                  tg.display_structure, Acc("none", EmptyDict, 0, {})))

\* The body of "for banner in banner_segments" for one segment: base_n, the
\* segment's banner_data and the labels it adds to used_labels.
SegmentData(tg, banner) == Filtered(tg, SegmentRows(tg, banner))

\* banner_data, base_ns and used_labels with one more segment recorded.
Recorded(st, banner_id, seg) ==
    [err |-> seg.err,
     banner_data |-> DictSet(st.banner_data, banner_id, seg.data),
     base_ns |-> DictSet(st.base_ns, banner_id, seg.base_n),
     used_labels |-> st.used_labels \cup seg.used]

RECURSIVE BannerLoop(_, _, _)
\* The loop over banner_segments, stopped by the first exception.
BannerLoop(tg, todo, st) ==
    IF todo = <<>> \/ st.err # "none" THEN st
    ELSE BannerLoop(tg, Tail(todo), Recorded(st, Head(todo).id, SegmentData(tg, Head(todo))))

Labels(ds) == [k \in DOMAIN ds |-> ds[k][2]]

\* FinalLabels with the derived labels appended whether or not show_sigma is set.
FinalLabelsUnguarded(tg, used_labels) ==
    Labels(tg.display_structure)
    \o (IF "No Answer" \in used_labels THEN <<"No Answer">> ELSE <<>>)
    \o (IF "Sigma" \in used_labels THEN <<"Sigma">> ELSE <<>>)
    \o SelectSeq(<<"Mean", "Std.err", "Std.dev", "Median">>, LAMBDA stat : stat \in used_labels)

\* final_labels: the declared labels, then the derived labels found in used_labels.
FinalLabels(tg, used_labels) ==
    Labels(tg.display_structure)
    \o (IF tg.show_sigma /\ "No Answer" \in used_labels THEN <<"No Answer">> ELSE <<>>)
    \o (IF tg.show_sigma /\ "Sigma" \in used_labels THEN <<"Sigma">> ELSE <<>>)
    \o SelectSeq(<<"Mean", "Std.err", "Std.dev", "Median">>, LAMBDA stat : stat \in used_labels)

\* SubRows with the percent sub-row emitted for every label.
SubRowsAlways(label, values) ==
    <<(<<label>> \o [k \in DOMAIN values |-> values[k][1]]),
      (<<"">> \o [k \in DOMAIN values |-> values[k][2]])>>

\* The count sub-row of a label and, when some segment has a percent, its
\* percent sub-row; values holds the label's [count, percent] of every segment.
SubRows(label, values) ==
    IF \E k \in DOMAIN values : values[k][2] # ""
    THEN <<(<<label>> \o [k \in DOMAIN values |-> values[k][1]]),
           (<<"">> \o [k \in DOMAIN values |-> values[k][2]])>>
    ELSE <<(<<label>> \o [k \in DOMAIN values |-> values[k][1]])>>

\* LabelRows with the segments taken in reverse order.
LabelRowsReversed(banner_segments, banner_data, label) ==
    SubRows(label, [k \in DOMAIN banner_segments |->
                      DictGet(banner_data[banner_segments[Len(banner_segments) + 1 - k].id],
                              label, <<0, "">>)])

LabelRows(banner_segments, banner_data, label) ==
    SubRows(label, [k \in DOMAIN banner_segments |->
                      DictGet(banner_data[banner_segments[k].id], label, <<0, "">>)])

RECURSIVE OutputRows(_, _, _)
OutputRows(banner_segments, banner_data, final_labels) ==
    IF final_labels = <<>> THEN <<>>
    ELSE LabelRows(banner_segments, banner_data, Head(final_labels))
         \o OutputRows(banner_segments, banner_data, Tail(final_labels))

Header(banner_segments) ==
    <<"Label">> \o [k \in DOMAIN banner_segments |->
                      banner_segments[k].id \o " (" \o banner_segments[k].label \o ")"]

\* The DataFrame built from the Base row and the rows of final_labels.
Assemble(tg, banner_segments, st) ==
    IF st.err # "none" THEN [err |-> st.err, columns |-> <<>>, rows |-> <<>>]
    ELSE [err |-> "none",
          columns |-> Header(banner_segments),
          rows |-> <<(<<"Base">> \o [k \in DOMAIN banner_segments |->
                                       st.base_ns[banner_segments[k].id]])>>
                   \o OutputRows(banner_segments, st.banner_data,
                                 FinalLabels(tg, st.used_labels))]

\* generate_crosstab(banner_segments, self.display_structure): the exception it
\* raises, or the table it returns.
generate_crosstab(tg, banner_segments) ==
    Assemble(tg, banner_segments,
             BannerLoop(tg, banner_segments,
                        [err |-> "none", banner_data |-> EmptyDict, base_ns |-> EmptyDict,
                         used_labels |-> {tg.display_structure[k][2] :
                                            k \in DOMAIN tg.display_structure}]))

-----------------------------------------------------------------------------
(* table_service.generate_tables *)

client_name == "Client"

study_name == "Demo Study"

\* f"{month} {year}" of the run.
month_year == "November 2026"

\* f"{study_name.replace(' ', '_')}_Output_Tables_{today}.csv"
file_name == "Demo_Study_Output_Tables_11022026.csv"

QuestionFields ==
    {"question_var", "question_text", "base_text", "display_structure",
     "question_type", "mean_var", "base_filter", "show_sigma"}

\* A one-cell row of the "Label" column, reindexed to the crosstab's columns.
PadRow(text, width) == <<text>> \o [k \in 1..(width - 1) |-> ""]

_build_metadata_rows(table_number, question_text, base_text, columns_like) ==
    LET w == Len(columns_like)
    IN <<PadRow("", w), PadRow("#page", w), PadRow(client_name, w), PadRow(study_name, w),
         PadRow(month_year, w), PadRow("Table " \o ToString(table_number), w),
         PadRow(question_text, w), PadRow("Base: " \o base_text, w)>>

\* full_table: the metadata band, a blank row, the banner labels, the banner ids
\* and the crosstab.
FullTable(cross_tab_df, q, banner_segments, n) ==
    [err |-> cross_tab_df.err,
     columns |-> cross_tab_df.columns,
     rows |-> _build_metadata_rows(n, q["question_text"], q["base_text"],
                                   cross_tab_df.columns)
              \o <<PadRow("", Len(cross_tab_df.columns)),
                   (<<"">> \o [k \in DOMAIN banner_segments |-> banner_segments[k].label]),
                   (<<"">> \o [k \in DOMAIN banner_segments |-> banner_segments[k].id])>>
              \o cross_tab_df.rows]

\* The body of the loop for question number n: the exception it raises (a
\* missing field, then TabGenerator.__init__, then generate_crosstab) or the
\* full_table it appends.
LoopBody(first_data, q, banner_segments, n) ==
    IF ~(QuestionFields \subseteq DOMAIN q)
    THEN [err |-> "KeyError", columns |-> <<>>, rows |-> <<>>]
    ELSE IF InitError(q["display_structure"]) # "none"
    THEN [err |-> InitError(q["display_structure"]), columns |-> <<>>, rows |-> <<>>]
    ELSE FullTable(generate_crosstab(TabGenerator(first_data, q, n), banner_segments),
                   q, banner_segments, n)

RECURSIVE ConcatRowsReversed(_)
\* ConcatRows with the tables taken from the last to the first.
ConcatRowsReversed(tables) ==
    IF tables = <<>> THEN <<>>
    ELSE ConcatRowsReversed(Tail(tables)) \o Head(tables).rows

RECURSIVE ConcatRows(_)
\* pd.concat(results, ignore_index=True)
ConcatRows(tables) ==
    IF tables = <<>> THEN <<>> ELSE Head(tables).rows \o ConcatRows(Tail(tables))

NothingReturned == [kind |-> "pending", final_df |-> <<>>, file_name |-> ""]

\* Tabulate with the tables so far written to the output files in every iteration.
TabulateWriting ==
    /\ pc = "loop"
    /\ i < Len(questions)
    /\ \E t \in {LoopBody(data, questions[i + 1], banner_config, i + 1)} :
        /\ t.err = "none"
        /\ results' = Append(results, [columns |-> t.columns, rows |-> t.rows])
        /\ files' = DictSet(DictSet(files, file_name, t.rows), "tab_output.csv", t.rows)
    /\ i' = i + 1
    /\ UNCHANGED <<data, questions, banner_config, pc, err, returned, tgs>>

\* One iteration of the loop over the questions that completes.
Tabulate ==
    /\ pc = "loop"
    /\ i < Len(questions)
    /\ \E t \in {LoopBody(data, questions[i + 1], banner_config, i + 1)} :
        /\ t.err = "none"
        /\ results' = Append(results, [columns |-> t.columns, rows |-> t.rows])
    /\ i' = i + 1
    /\ UNCHANGED <<data, questions, banner_config, pc, err, returned, files, tgs>>

\* One iteration that raises: generate_tables catches nothing, so the exception
\* leaves the function and its local results are lost.
TabulateRaises ==
    /\ pc = "loop"
    /\ i < Len(questions)
    /\ \E t \in {LoopBody(data, questions[i + 1], banner_config, i + 1)} :
        /\ t.err # "none"
        /\ err' = t.err
    /\ pc' = "raised"
    /\ results' = <<>>
    /\ UNCHANGED <<data, questions, banner_config, i, returned, files, tgs>>

\* "if not results: return None, None"
ReturnNone ==
    /\ pc = "loop"
    /\ i = Len(questions)
    /\ results = <<>>
    /\ returned' = [kind |-> "none", final_df |-> <<>>, file_name |-> ""]
    /\ pc' = "done"
    /\ UNCHANGED <<data, questions, banner_config, i, results, err, files, tgs>>

\* The concatenation of the tables, written to both output files and returned.
WriteOutput ==
    /\ pc = "loop"
    /\ i = Len(questions)
    /\ results # <<>>
    /\ \E final_df \in {ConcatRows(results)} :
        /\ files' = DictSet(DictSet(files, file_name, final_df), "tab_output.csv", final_df)
        /\ returned' = [kind |-> "tables", final_df |-> final_df, file_name |-> file_name]
    /\ pc' = "done"
    /\ UNCHANGED <<data, questions, banner_config, i, results, err, tgs>>

Next == Tabulate \/ TabulateRaises \/ ReturnNone \/ WriteOutput

-----------------------------------------------------------------------------
(* Inputs. *)

SeqsUpTo(S, n) == UNION {[1..k -> S] : k \in 0..n}

Question(var, type, ds, filter, mean, sigma) ==
    [question_var |-> var, question_text |-> "Question", base_text |-> "All respondents",
     display_structure |-> ds, question_type |-> type, base_filter |-> filter,
     mean_var |-> mean, show_sigma |-> sigma]

Total == [id |-> "A", label |-> "Total", condition |-> NoExpr]

\* The state in which generate_tables starts on the given inputs.
Start(d, qs, banner) ==
    /\ data = d
    /\ questions = qs
    /\ banner_config = banner
    /\ pc = "loop"
    /\ i = 0
    /\ results = <<>>
    /\ err = "none"
    /\ returned = NothingReturned
    /\ files = EmptyDict
    /\ tgs = <<>>

-----------------------------------------------------------------------------
(* Single-choice questions over one coded column. *)

GenderData ==
    {[columns |-> {"Gender"}, rows |-> r] :
        r \in SeqsUpTo({[Gender |-> g] : g \in {1, 2, NaN}}, MaxRows)}

Male == [id |-> "B", label |-> "Male", condition |-> EqExpr("Gender", 1)]

SingleEntries ==
    {<<"code", "Male", PyInt(1)>>,
     <<"code", "Female", PyInt(2)>>,
     <<"code", "Man", PyInt(1)>>,
     <<"code", "No Answer", PyInt(2)>>,
     <<"code", "Pair", PyTuple(<<1, 2, 1>>)>>,
     <<"net", "All Genders", PyList(<<1, 2>>)>>,
     <<"net", "Men", PyList(<<1, 1>>)>>}

SingleQuestions ==
    {Question(PyStr("Gender"), "single", ds, f, None, sigma) :
        ds \in SeqsUpTo(SingleEntries, MaxEntries),
        f \in {NoExpr, EqExpr("Gender", 2)},
        sigma \in BOOLEAN}

InitSingle ==
    \E d \in GenderData, banner \in {<<Total>>, <<Total, Male>>},
       qs \in {<<>>} \cup {<<q>> : q \in SingleQuestions} :
        Start(d, qs, banner)

SpecSingle == InitSingle /\ [][Next]_vars

-----------------------------------------------------------------------------
(* Multi-select questions over indicator columns; A_9 is no column of the data. *)

IndicatorData ==
    {[columns |-> {"A_1", "A_2"}, rows |-> r] :
        r \in SeqsUpTo({[A_1 |-> a, A_2 |-> b] : a \in {0, 1, 2, NaN}, b \in {0, 1}}, MaxRows)}

Picked == [id |-> "B", label |-> "Picked 1", condition |-> EqExpr("A_1", 1)]

MultiEntries ==
    {<<"code", "Option 1", PyStr("A_1")>>,
     <<"code", "Option 2", PyStr("A_2")>>,
     <<"code", "Option 9", PyStr("A_9")>>,
     <<"net", "Any", PyList(<<"A_1", "A_2", "A_9">>)>>}

MultiQuestions ==
    {Question(PyList(<<"A_1", "A_2">>), "multi", ds, NoExpr, None, sigma) :
        ds \in SeqsUpTo(MultiEntries, MaxEntries), sigma \in BOOLEAN}

InitMulti ==
    \E d \in IndicatorData, banner \in {<<Total>>, <<Total, Picked>>},
       qs \in {<<>>} \cup {<<q>> : q \in MultiQuestions} :
        Start(d, qs, banner)

SpecMulti == InitMulti /\ [][Next]_vars

-----------------------------------------------------------------------------
(* Batches of questions, sound and defective, over one dataset. *)

SurveyData ==
    {[columns |-> {"Gender", "A_1"}, rows |-> r] :
        r \in SeqsUpTo({[Gender |-> 1, A_1 |-> 1], [Gender |-> 2, A_1 |-> 0],
                        [Gender |-> NaN, A_1 |-> NaN]}, MaxRows)}

\* A segment whose condition names a column the data does not have.
Region == [id |-> "C", label |-> "North", condition |-> EqExpr("Region", 1)]

GenderRows ==
    <<(<<"code", "Male", PyInt(1)>>), (<<"code", "Female", PyInt(2)>>),
      (<<"net", "All Genders", PyList(<<1, 2>>)>>)>>

QGender == Question(PyStr("Gender"), "single", GenderRows, NoExpr, PyStr("Gender"), TRUE)

QOption ==
    Question(PyList(<<"A_1">>), "multi",
             <<(<<"code", "Option 1", PyStr("A_1")>>), (<<"net", "Any", PyList(<<"A_1">>)>>)>>,
             NoExpr, None, TRUE)

QAge == Question(PyStr("Gender"), "open_numeric", <<>>, NoExpr, PyStr("Gender"), TRUE)

\* base_filter = "Q1 == 1" over data without a column Q1.
QUndefinedFilter ==
    Question(PyStr("Gender"), "single", GenderRows, EqExpr("Q1", 1), None, TRUE)

\* base_filter is a string that does not parse.
QMalformedFilter == Question(PyStr("Gender"), "single", GenderRows, BadExpr, None, TRUE)

\* A display_structure row of four values, which validate_display_structure accepts.
QBadRow ==
    Question(PyStr("Gender"), "single", <<(<<"code", "Male", PyInt(1), PyInt(0)>>)>>,
             NoExpr, None, TRUE)

QNetNotList ==
    Question(PyStr("Gender"), "single",
             <<(<<"code", "Male", PyInt(1)>>), (<<"net", "All Genders", PyInt(1)>>)>>,
             NoExpr, None, TRUE)

QUnknownType == Question(PyStr("Gender"), "grid", GenderRows, NoExpr, None, TRUE)

\* A 'code' row whose payload is a list.
QListCode ==
    Question(PyStr("Gender"), "single", <<(<<"code", "Both", PyList(<<1, 2>>)>>)>>,
             NoExpr, None, TRUE)

BatchQuestions ==
    {QGender, QOption, QAge, QUndefinedFilter, QMalformedFilter, QBadRow, QNetNotList,
     QUnknownType, QListCode}

Init ==
    \E d \in SurveyData, banner \in {<<>>, <<Total>>, <<Total, Male>>, <<Total, Region>>},
       qs \in SeqsUpTo(BatchQuestions, MaxQuestions) :
        Start(d, qs, banner)

Spec == Init /\ [][Next]_vars

-----------------------------------------------------------------------------
(* One question of every question type, with and without show_sigma, statistics *)
(* and a base filter, over segments in either order.                           *)

\* Declared rows that carry the labels of the derived rows.
ReservedRows ==
    <<(<<"code", "No Answer", PyInt(2)>>), (<<"code", "Sigma", PyInt(1)>>)>>

OptionRows ==
    <<(<<"code", "Option 1", PyStr("A_1")>>), (<<"net", "Any", PyList(<<"A_1">>)>>)>>

\* A 'code' row over A_9, which is no column of the data.
AbsentOptionRows == <<(<<"code", "Option 9", PyStr("A_9")>>)>>

\* question_var, question_type and display_structure that go together.
TypedShapes ==
    {<<PyStr("Gender"), "single", <<>> >>,
     <<PyStr("Gender"), "single", GenderRows>>,
     <<PyStr("Gender"), "single", ReservedRows>>,
     <<PyList(<<"A_1">>), "multi", <<>> >>,
     <<PyList(<<"A_1">>), "multi", OptionRows>>,
     <<PyList(<<"A_1">>), "multi", AbsentOptionRows>>,
     <<PyStr("Gender"), "open_numeric", <<>> >>,
     <<PyStr("Gender"), "grid", GenderRows>>}

TypedQuestions ==
    {Question(sh[1], sh[2], sh[3], f, mean, sigma) :
        sh \in TypedShapes,
        f \in {NoExpr, EmptyExpr, EqExpr("Gender", 2)},
        mean \in {None, PyStr("Gender"), PyStr("Age")},
        sigma \in BOOLEAN}

\* A question record that has no key named field.
Without(q, field) == [f \in (DOMAIN q) \ {field} |-> q[f]]

\* Records that lack the base_filter or the mean_var key.
PartialQuestions ==
    {Without(Question(PyStr("Gender"), "single", GenderRows, NoExpr, None, TRUE), field) :
        field \in {"base_filter", "mean_var"}}

TypedBanners ==
    {<<>>, <<Total>>, <<Total, Male>>, <<Male, Total>>, <<Total, Region>>}

InitTyped ==
    \E d \in SurveyData, banner \in TypedBanners,
       qs \in {<<>>} \cup {<<q>> : q \in TypedQuestions \cup PartialQuestions} :
        Start(d, qs, banner)

SpecTyped == InitTyped /\ [][Next]_vars

-----------------------------------------------------------------------------
(* A caller that builds TabGenerator objects over one dataset and calls        *)
(* generate_crosstab on them, several times and in any interleaving.           *)

MaxCalls == 2

\* The locals of generate_crosstab before the loop over banner_segments.
LoopStart(ds) ==
    [err |-> "none", banner_data |-> EmptyDict, base_ns |-> EmptyDict,
     used_labels |-> {ds[k][2] : k \in DOMAIN ds}]

\* tg = TabGenerator(first_data=data, ...) for the next question of the list:
\* the object keeps a copy of the dataset and the question's fields.
NewGenerator ==
    /\ pc = "direct"
    /\ Len(tgs) < Len(questions)
    /\ QuestionFields \subseteq DOMAIN questions[Len(tgs) + 1]
    /\ InitError(questions[Len(tgs) + 1]["display_structure"]) = "none"
    /\ tgs' = Append(tgs, [self |-> TabGenerator(data, questions[Len(tgs) + 1], Len(tgs) + 1),
                           at |-> "idle", pos |-> 0,
                           st |-> LoopStart(<<>>), out |-> <<>>])
    /\ UNCHANGED <<data, questions, banner_config, pc, i, results, err, returned, files>>

\* tg.generate_crosstab(banner_config, tg.display_structure) is entered.
BeginCrosstab(g) ==
    /\ pc = "direct"
    /\ tgs[g].at = "idle"
    /\ Len(tgs[g].out) < MaxCalls
    /\ tgs' = [tgs EXCEPT ![g].at = "loop", ![g].pos = 0,
                          ![g].st = LoopStart(tgs[g].self.display_structure)]
    /\ UNCHANGED <<data, questions, banner_config, pc, i, results, err, returned, files>>

\* SegmentStep with every call in progress writing to one shared banner_data.
SegmentStepShared(g) ==
    /\ pc = "direct"
    /\ tgs[g].at = "loop"
    /\ tgs[g].pos < Len(banner_config)
    /\ tgs[g].st.err = "none"
    /\ \E seg \in {SegmentData(tgs[g].self, banner_config[tgs[g].pos + 1])} :
          tgs' = [h \in DOMAIN tgs |->
                    IF h = g
                    THEN [tgs[h] EXCEPT !.pos = tgs[g].pos + 1,
                                        !.st = Recorded(tgs[g].st,
                                                        banner_config[tgs[g].pos + 1].id, seg)]
                    ELSE IF tgs[h].at = "loop"
                    THEN [tgs[h] EXCEPT !.st.banner_data =
                             DictSet(tgs[h].st.banner_data,
                                     banner_config[tgs[g].pos + 1].id, seg.data)]
                    ELSE tgs[h]]
    /\ UNCHANGED <<data, questions, banner_config, pc, i, results, err, returned, files>>

\* SegmentStep with the object's own frame narrowed to the segment's subset.
SegmentStepFilteringSelf(g) ==
    /\ pc = "direct"
    /\ tgs[g].at = "loop"
    /\ tgs[g].pos < Len(banner_config)
    /\ tgs[g].st.err = "none"
    /\ \E seg \in {SegmentData(tgs[g].self, banner_config[tgs[g].pos + 1])},
          sub \in {SegmentRows(tgs[g].self, banner_config[tgs[g].pos + 1])} :
          tgs' = [tgs EXCEPT ![g].pos = tgs[g].pos + 1,
                             ![g].st = Recorded(tgs[g].st,
                                                banner_config[tgs[g].pos + 1].id, seg),
                             ![g].self.df.rows = IF sub.err = "none" THEN sub.rows ELSE @]
    /\ UNCHANGED <<data, questions, banner_config, pc, i, results, err, returned, files>>

\* One iteration of "for banner in banner_segments" of a call in progress.
SegmentStep(g) ==
    /\ pc = "direct"
    /\ tgs[g].at = "loop"
    /\ tgs[g].pos < Len(banner_config)
    /\ tgs[g].st.err = "none"
    /\ \E seg \in {SegmentData(tgs[g].self, banner_config[tgs[g].pos + 1])} :
          tgs' = [tgs EXCEPT ![g].pos = tgs[g].pos + 1,
                             ![g].st = Recorded(tgs[g].st,
                                                banner_config[tgs[g].pos + 1].id, seg)]
    /\ UNCHANGED <<data, questions, banner_config, pc, i, results, err, returned, files>>

\* EndCrosstab with the derived labels appended to the caller's display_structure.
EndCrosstabAppending(g) ==
    /\ pc = "direct"
    /\ tgs[g].at = "loop"
    /\ tgs[g].pos = Len(banner_config) \/ tgs[g].st.err # "none"
    /\ \E t \in {Assemble(tgs[g].self, banner_config, tgs[g].st)} :
          tgs' = [tgs EXCEPT ![g].at = "idle", ![g].out = Append(tgs[g].out, t)]
    /\ questions' = [questions EXCEPT ![g]["display_structure"] =
                        IF tgs[g].self.show_sigma
                        THEN Append(@, <<"code", "Sigma", PyInt(0)>>) ELSE @]
    /\ UNCHANGED <<data, banner_config, pc, i, results, err, returned, files>>

\* The call ends: the exception of the loop propagates, or the table is
\* assembled from the loop's locals and returned.
EndCrosstab(g) ==
    /\ pc = "direct"
    /\ tgs[g].at = "loop"
    /\ tgs[g].pos = Len(banner_config) \/ tgs[g].st.err # "none"
    /\ \E t \in {Assemble(tgs[g].self, banner_config, tgs[g].st)} :
          tgs' = [tgs EXCEPT ![g].at = "idle", ![g].out = Append(tgs[g].out, t)]
    /\ UNCHANGED <<data, questions, banner_config, pc, i, results, err, returned, files>>

NextDirect ==
    \/ NewGenerator
    \/ \E g \in DOMAIN tgs : BeginCrosstab(g)
    \/ \E g \in DOMAIN tgs : SegmentStep(g)
    \/ \E g \in DOMAIN tgs : EndCrosstab(g)

\* Questions a caller tabulates directly: with statistics, over indicator
\* columns, and with a base_filter that fails.
DirectQuestions == {QGender, QOption, QUndefinedFilter}

InitDirect ==
    \E d \in SurveyData, banner \in {<<Total>>, <<Total, Male>>, <<Total, Region>>},
       qs \in {<<q>> : q \in DirectQuestions}
              \cup {<<p, q>> : p \in DirectQuestions, q \in DirectQuestions} :
        /\ data = d
        /\ questions = qs
        /\ banner_config = banner
        /\ pc = "direct"
        /\ i = 0
        /\ results = <<>>
        /\ err = "none"
        /\ returned = NothingReturned
        /\ files = EmptyDict
        /\ tgs = <<>>

SpecDirect == InitDirect /\ [][NextDirect]_vars

-----------------------------------------------------------------------------
(* The worked example of a multi question: indicator columns A_1 and A_2 over *)
(* the rows [1,1], [1,0], [0,0], [0,0], and the leading rows of it.           *)

ExampleRows ==
    <<[A_1 |-> 1, A_2 |-> 1], [A_1 |-> 1, A_2 |-> 0],
      [A_1 |-> 0, A_2 |-> 0], [A_1 |-> 0, A_2 |-> 0]>>

ExampleData ==
    {[columns |-> {"A_1", "A_2"}, rows |-> SubSeq(ExampleRows, 1, n)] :
        n \in 0..Len(ExampleRows)}

\* The rows display_structure may list: the two options and the net over both.
ExampleEntries ==
    <<(<<"code", "Option 1", PyStr("A_1")>>),
      (<<"code", "Option 2", PyStr("A_2")>>),
      (<<"net", "Any", PyList(<<"A_1", "A_2">>)>>)>>

\* The rows of ExampleEntries at the positions of S, in their order.
EntriesAt(S) ==
    LET pick[k \in 0..Len(ExampleEntries)] ==
            IF k = 0 THEN <<>>
            ELSE IF k \in S THEN Append(pick[k - 1], ExampleEntries[k])
            ELSE pick[k - 1]
    IN pick[Len(ExampleEntries)]

ExampleQuestions ==
    {Question(PyList(<<"A_1", "A_2">>), "multi", EntriesAt(S), NoExpr, None, sigma) :
        S \in SUBSET DOMAIN ExampleEntries, sigma \in BOOLEAN}

InitExample ==
    \E d \in ExampleData, banner \in {<<Total>>, <<Total, Picked>>, <<Total, Region>>},
       qs \in {<<>>} \cup {<<q>> : q \in ExampleQuestions} :
        Start(d, qs, banner)

SpecExample == InitExample /\ [][Next]_vars

-----------------------------------------------------------------------------
(* clean_blank_and_convert_to_numeric over a frame as it is read from a file: *)
(* a cell is a number, a missing value or a string, a string being the        *)
(* sequence of its characters.                                                *)

\* np.nan as a cell of a raw frame.
PyNaN == [t |-> "nan", v |-> 0]

exclude_cols == {"date", "markers", "record", "uuid"}

\* first_data.columns.difference(exclude_cols), with every excluded column left in.
cols_to_convertAll(columns) == columns

cols_to_convert(columns) == columns \ exclude_cols

\* replace({' ': np.nan, '': np.nan}): the two strings, matched whole.
Replaced(cell) ==
    IF cell = PyStr(<<" ">>) \/ cell = PyStr(<<>>) THEN PyNaN ELSE cell

\* A string without its leading and trailing blanks.
RECURSIVE Strip(_)
Strip(s) ==
    IF s = <<>> THEN s
    ELSE IF Head(s) = " " THEN Strip(Tail(s))
    ELSE IF s[Len(s)] = " " THEN Strip(SubSeq(s, 1, Len(s) - 1))
    ELSE s

DecimalDigits == <<"0", "1", "2", "3", "4", "5", "6", "7", "8", "9">>

IsDigit(c) == \E d \in DOMAIN DecimalDigits : DecimalDigits[d] = c

DigitValue(c) == (CHOOSE d \in DOMAIN DecimalDigits : DecimalDigits[d] = c) - 1

\* The number a non-empty string of decimal digits denotes.
RECURSIVE ParseDigits(_)
ParseDigits(s) ==
    IF s = <<>> THEN 0
    ELSE 10 * ParseDigits(SubSeq(s, 1, Len(s) - 1)) + DigitValue(s[Len(s)])

\* The number a stripped string denotes, missing when it denotes none.
Parsed(s) ==
    IF s # <<>> /\ \A k \in DOMAIN s : IsDigit(s[k]) THEN PyInt(ParseDigits(s)) ELSE PyNaN

\* pd.to_numeric(errors='coerce') of one cell: numbers and missing values are
\* kept, a string is parsed with the blanks around it ignored, and what does not
\* parse becomes missing.
to_numeric(cell) == IF cell.t = "str" THEN Parsed(Strip(cell.v)) ELSE cell

CleanRow(convert, r) ==
    [c \in DOMAIN r |-> IF c \in convert THEN to_numeric(Replaced(r[c])) ELSE r[c]]

\* The frame after the call: the columns to convert replaced in place.
clean_blank_and_convert_to_numeric(first_data) ==
    [columns |-> first_data.columns,
     rows |-> [k \in DOMAIN first_data.rows |->
                 CleanRow(cols_to_convert(first_data.columns), first_data.rows[k])]]

\* The call data = clean_blank_and_convert_to_numeric(data): the frame is
\* changed in place and returned.
Clean ==
    /\ pc = "raw"
    /\ \E cleaned \in {clean_blank_and_convert_to_numeric(data)} :
          /\ data' = cleaned
          /\ returned' = [kind |-> "frame", file_name |-> "", final_df |-> cleaned.rows]
    /\ pc' = "clean"
    /\ UNCHANGED <<questions, banner_config, i, results, err, files, tgs>>

NextClean == Clean

\* The cells of an answer column of a raw frame.
RawCells ==
    {PyInt(7), PyNaN}
        \cup {PyStr(s) : s \in SeqsUpTo({" ", "1", "a"}, 2)}

\* The cells of the uuid column, which is text.
RawIds == {PyStr(<<"a">>), PyStr(<<" ">>), PyStr(<<>>)}

RawData ==
    {[columns |-> {"uuid", "Q1"}, rows |-> r] :
        r \in SeqsUpTo({[uuid |-> u, Q1 |-> c] : u \in RawIds, c \in RawCells}, MaxRows)}
    \cup {[columns |-> {"Q1"}, rows |-> r] :
        r \in SeqsUpTo({[Q1 |-> c] : c \in RawCells}, MaxRows)}

InitClean ==
    /\ data \in RawData
    /\ questions = <<>>
    /\ banner_config = <<>>
    /\ pc = "raw"
    /\ i = 0
    /\ results = <<>>
    /\ err = "none"
    /\ returned = NothingReturned
    /\ files = EmptyDict
    /\ tgs = <<>>

SpecClean == InitClean /\ [][NextClean]_vars

-----------------------------------------------------------------------------
(* Reference readings of the inputs and of the tables, used by the properties. *)

\* A row satisfies an expression: no expression, or "col == val" on its cell.
Passes(r, e) ==
    \/ e.kind \in {"none", "empty"}
    \/ e.kind = "eq" /\ e.col \in DOMAIN r /\ r[e.col] = e.val

\* The respondents of a segment of a question: positions of rows of the dataset.
Respondents(q, seg) ==
    {k \in DOMAIN data.rows :
        Passes(data.rows[k], q["base_filter"]) /\ Passes(data.rows[k], seg.condition)}

\* The crosstab of the j-th table of results: the rows below the header band.
Cross(j) == SubSeq(results[j].rows, 12, Len(results[j].rows))

\* base_n of segment s as the Base row of table j shows it.
BaseN(j, s) == Cross(j)[1][s + 1]

\* The count table j shows for a label in segment s, read from the first row
\* that carries the label.
Shown(j, label, s) ==
    Cross(j)[CHOOSE k \in DOMAIN Cross(j) :
                /\ Cross(j)[k][1] = label
                /\ \A m \in 1..(k - 1) : Cross(j)[m][1] # label][s + 1]

HasRow(j, label) == \E k \in DOMAIN Cross(j) : Cross(j)[k][1] = label

ShownOrZero(j, label, s) == IF HasRow(j, label) THEN Shown(j, label, s) ELSE 0

DeclaredLabels(q) == {q["display_structure"][a][2] : a \in DOMAIN q["display_structure"]}

\* Every row of display_structure is a [type, label, payload] triple.
TripleRows(q) == \A a \in DOMAIN q["display_structure"] : Len(q["display_structure"][a]) = 3

\* The number of respondents of a segment whose answer to a single question is code.
Answering(q, seg, code) ==
    Cardinality({k \in Respondents(q, seg) : data.rows[k][q["question_var"].v] = code})

-----------------------------------------------------------------------------
(* C1 *)

\* A single question with show_sigma whose 'code' rows carry pairwise distinct codes.
DistinctCodes(q) ==
    /\ q["question_type"] = "single"
    /\ q["show_sigma"]
    /\ TripleRows(q)
    /\ \A a \in DOMAIN q["display_structure"] :
          q["display_structure"][a][1] = "code" => q["display_structure"][a][3].t = "int"
    /\ \A a, b \in DOMAIN q["display_structure"] :
          (/\ a # b
           /\ q["display_structure"][a][1] = "code"
           /\ q["display_structure"][b][1] = "code")
          => q["display_structure"][a][3].v # q["display_structure"][b][3].v

\* The sum over the 'code' rows of the respondents answering the row's code.
CodeSum(q, seg) ==
    SumSeq([a \in DOMAIN q["display_structure"] |->
              IF q["display_structure"][a][1] = "code"
              THEN Answering(q, seg, q["display_structure"][a][3].v) ELSE 0])

\* C1: for a single question with show_sigma and pairwise distinct codes, in every
\* segment the Sigma count equals base_n, and the code counts plus the No Answer
\* count add up to base_n (the No Answer count read from the table when no
\* declared row is itself labelled "No Answer").
C1_SigmaEqualsBase ==
    \A j \in DOMAIN results :
        DistinctCodes(questions[j]) =>
            \A s \in DOMAIN banner_config :
                /\ Shown(j, "Sigma", s) = BaseN(j, s)
                /\ "No Answer" \notin DeclaredLabels(questions[j]) =>
                      CodeSum(questions[j], banner_config[s])
                        + ShownOrZero(j, "No Answer", s) = BaseN(j, s)

\* A tabulated single question with a counted code, a net and a missing answer.
C1_Witness ==
    \E j \in DOMAIN results :
        /\ DistinctCodes(questions[j])
        /\ "No Answer" \notin DeclaredLabels(questions[j])
        /\ \E a \in DOMAIN questions[j]["display_structure"] :
              questions[j]["display_structure"][a][1] = "net"
        /\ \E s \in DOMAIN banner_config :
              /\ CodeSum(questions[j], banner_config[s]) >= 1
              /\ ShownOrZero(j, "No Answer", s) >= 1
              /\ Shown(j, "Sigma", s) = 2

-----------------------------------------------------------------------------
(* C8 *)

\* The members of a list payload.
Members(payload) == {payload[m] : m \in DOMAIN payload}

\* C8: for a single question and every segment, the count of a 'net' row is the
\* number of respondents of the segment whose answer is a member of the net's
\* code list, and is at most base_n, also when the list repeats a code.
C8_SingleNetCount ==
    \A j \in DOMAIN results :
        (questions[j]["question_type"] = "single" /\ TripleRows(questions[j])) =>
            \A a \in DOMAIN questions[j]["display_structure"], s \in DOMAIN banner_config :
                LET e == questions[j]["display_structure"][a]
                IN (e[1] = "net" /\ e[3].t = "list") =>
                      /\ Shown(j, e[2], s)
                           = Cardinality({k \in Respondents(questions[j], banner_config[s]) :
                                 data.rows[k][questions[j]["question_var"].v] \in Members(e[3].v)})
                      /\ Shown(j, e[2], s) <= BaseN(j, s)

\* A tabulated net that lists a code twice and counts a respondent.
C8_Witness ==
    \E j \in DOMAIN results :
        /\ questions[j]["question_type"] = "single"
        /\ TripleRows(questions[j])
        /\ \E a \in DOMAIN questions[j]["display_structure"], s \in DOMAIN banner_config :
              LET e == questions[j]["display_structure"][a]
              IN /\ e[1] = "net"
                 /\ e[3].t = "list"
                 /\ Len(e[3].v) > Cardinality(Members(e[3].v))
                 /\ Shown(j, e[2], s) >= 1
                 /\ Shown(j, e[2], s) = BaseN(j, s)

-----------------------------------------------------------------------------
(* C2 *)

\* C2: base_n is never negative, and in a segment whose base_n is 0 every cell
\* of every percent sub-row of the table is "0.00%".
C2_ZeroBasePercents ==
    \A j \in DOMAIN results, s \in DOMAIN banner_config :
        /\ BaseN(j, s) >= 0
        /\ BaseN(j, s) = 0 =>
              \A k \in 2..Len(Cross(j)) :
                  Cross(j)[k][1] = "" => Cross(j)[k][s + 1] = "0.00%"

-----------------------------------------------------------------------------
(* C3, C7 *)

\* An expression that DataFrame.query cannot evaluate on the dataset.
ExprFails(e) == e.kind = "malformed" \/ (e.kind = "eq" /\ e.col \notin data.columns)

\* The base_filter of q, or the condition of a segment evaluated for q, fails.
HasExprError(q) ==
    \/ ExprFails(q["base_filter"])
    \/ \E s \in DOMAIN banner_config : ExprFails(banner_config[s].condition)

\* A 'code' or 'net' row of q names a column the dataset does not have.
NamesAbsentColumn(q) ==
    \E a \in DOMAIN q["display_structure"] :
        LET e == q["display_structure"][a]
        IN \/ e[1] = "code" /\ e[3].t = "str" /\ e[3].v \notin data.columns
           \/ e[1] = "net" /\ e[3].t = "list"
                /\ \E m \in DOMAIN e[3].v : e[3].v[m] \notin data.columns

\* C3: tabulating a multi question that names an absent column never raises,
\* whatever show_sigma is.
C3_AbsentColumnTolerated ==
    ~(/\ pc = "raised"
      /\ questions[i + 1]["question_type"] = "multi"
      /\ TripleRows(questions[i + 1])
      /\ ~HasExprError(questions[i + 1])
      /\ NamesAbsentColumn(questions[i + 1]))

\* The respondents of a segment with column col equal to 1.
Checked(q, seg, col) == Cardinality({k \in Respondents(q, seg) : data.rows[k][col] = 1})

\* C7: for a multi question and every segment, the count of a 'net' row is the
\* sum over the net's present columns of the respondents with that column
\* equal to 1, whatever the cells hold.
C7_MultiNetCount ==
    \A j \in DOMAIN results :
        (questions[j]["question_type"] = "multi" /\ TripleRows(questions[j])) =>
            \A a \in DOMAIN questions[j]["display_structure"], s \in DOMAIN banner_config :
                LET e == questions[j]["display_structure"][a]
                IN (e[1] = "net" /\ e[3].t = "list") =>
                      Shown(j, e[2], s)
                        = SumSeq([m \in DOMAIN e[3].v |->
                                    IF e[3].v[m] \in data.columns
                                    THEN Checked(questions[j], banner_config[s], e[3].v[m])
                                    ELSE 0])

-----------------------------------------------------------------------------
(* C4, C5, C6, C9 *)

\* display_structure is malformed for TabGenerator: a row that is no triple, a
\* 'net' whose payload is no list, or a question_type the generator does not know.
ConfigError(q) ==
    \/ ~TripleRows(q)
    \/ \E a \in DOMAIN q["display_structure"] :
          /\ q["display_structure"][a][1] = "net"
          /\ q["display_structure"][a][3].t # "list"
    \/ q["question_type"] \notin {"single", "multi", "open_numeric"}

\* A 'code' row of q carries a code that is no number.
ForeignCode(q) ==
    \E a \in DOMAIN q["display_structure"] :
        q["display_structure"][a][1] = "code" /\ q["display_structure"][a][3].t # "int"

\* The table of question number k is part of what generate_tables returned.
TableReturned(k) ==
    /\ returned.kind = "tables"
    /\ \E m \in DOMAIN returned.final_df :
          returned.final_df[m][1] = "Table " \o ToString(k)

\* C4: when the only defects of a batch are failing filters or conditions, the
\* table of every question without such a failure is still generated and returned.
C4_BatchNotBlocked ==
    (/\ pc \in {"done", "raised"}
     /\ \A k \in DOMAIN questions : ~ConfigError(questions[k]) /\ ~ForeignCode(questions[k]))
    => \A k \in DOMAIN questions : ~HasExprError(questions[k]) => TableReturned(k)

\* base_filter or a segment's condition names a column the dataset does not have.
UndefinedReference(q) ==
    \/ q["base_filter"].kind = "eq" /\ q["base_filter"].col \notin data.columns
    \/ \E s \in DOMAIN banner_config :
          /\ banner_config[s].condition.kind = "eq"
          /\ banner_config[s].condition.col \notin data.columns

\* C5: no table is produced for a question whose base_filter or segment
\* condition references a column that does not exist.
C5_UndefinedColumnRaises ==
    \A j \in DOMAIN results : ~UndefinedReference(questions[j])

\* C6: a question whose only defect is a configuration error never makes
\* generate_tables raise.
C6_ConfigErrorTolerated ==
    ~(/\ pc = "raised"
      /\ ConfigError(questions[i + 1])
      /\ ~HasExprError(questions[i + 1]))

\* C9: a 'code' row of a single question whose code is not of the column's
\* type never makes table generation fail.
C9_TypeMismatchTolerated ==
    ~(/\ pc = "raised"
      /\ questions[i + 1]["question_type"] = "single"
      /\ TripleRows(questions[i + 1])
      /\ ~HasExprError(questions[i + 1])
      /\ questions[i + 1]["question_var"].v \in data.columns
      /\ ForeignCode(questions[i + 1]))

-----------------------------------------------------------------------------
(* C10 *)

\* The labels of the count rows of table j below the Base row, in table order
\* (a percent sub-row carries the empty label).
CountLabels(j) ==
    SelectSeq([k \in 1..(Len(Cross(j)) - 1) |-> Cross(j)[k + 1][1]], LAMBDA l : l # "")

\* Reconciliation produced a "No Answer" row for a single question in some
\* segment: show_sigma is on and some respondent answered none of the codes.
NoAnswerProduced(q) ==
    /\ q["show_sigma"]
    /\ \E s \in DOMAIN banner_config :
          Cardinality(Respondents(q, banner_config[s])) > CodeSum(q, banner_config[s])

SigmaProduced(q) == q["show_sigma"] /\ banner_config # <<>>

StatsProduced(q) ==
    /\ q["mean_var"].t = "str"
    /\ q["mean_var"].v \in data.columns
    /\ banner_config # <<>>

\* C10: below the Base row the count rows are the declared labels in declared
\* order, then "No Answer", "Sigma", "Mean", "Std.err", "Std.dev", "Median", each
\* derived label present exactly when it was produced for some segment, and once.
C10_RowOrder ==
    \A j \in DOMAIN results :
        (/\ questions[j]["question_type"] = "single"
         /\ TripleRows(questions[j])
         /\ ~ForeignCode(questions[j]))
        => CountLabels(j)
             = Labels(questions[j]["display_structure"])
               \o (IF NoAnswerProduced(questions[j]) THEN <<"No Answer">> ELSE <<>>)
               \o (IF SigmaProduced(questions[j]) THEN <<"Sigma">> ELSE <<>>)
               \o (IF StatsProduced(questions[j])
                   THEN <<"Mean", "Std.err", "Std.dev", "Median">> ELSE <<>>)

-----------------------------------------------------------------------------
(* C11 *)

\* C11: the first row of every returned crosstab is "Base" followed by the
\* number of respondents of each segment, in the declared order of the segments,
\* for every question type, show_sigma value and display_structure.
C11_BaseRow ==
    \A j \in DOMAIN results :
        Cross(j)[1] = <<"Base">> \o [s \in DOMAIN banner_config |->
                          Cardinality(Respondents(questions[j], banner_config[s]))]

\* A table without show_sigma and without declared rows whose two segments,
\* the narrower one first, have different bases.
C11_Witness ==
    \E j \in DOMAIN results :
        /\ questions[j]["question_type"] = "open_numeric"
        /\ ~questions[j]["show_sigma"]
        /\ questions[j]["display_structure"] = <<>>
        /\ banner_config = <<Male, Total>>
        /\ BaseN(j, 1) = 1
        /\ BaseN(j, 2) = 2

-----------------------------------------------------------------------------
(* C12 *)

\* The 'code' rows of a single question whose label no other row and no derived
\* row carries: the rows whose cells are the counts of their own code.
PlainCodes(q) ==
    {a \in DOMAIN q["display_structure"] :
        /\ q["display_structure"][a][1] = "code"
        /\ q["display_structure"][a][3].t = "int"
        /\ q["display_structure"][a][2] \notin {"No Answer", "Sigma"}
        /\ \A b \in DOMAIN q["display_structure"] :
              b # a => q["display_structure"][b][2] # q["display_structure"][a][2]}

\* C12: the header is "Label" followed by "id (label)" of every segment in
\* declared order, every row has one cell more than there are segments, and the
\* s-th data cell of a row is the value of the s-th declared segment (read on
\* the Base row and on the code rows of a single question).
C12_SegmentOrder ==
    \A j \in DOMAIN results :
        /\ results[j].columns
             = <<"Label">> \o [s \in DOMAIN banner_config |->
                   banner_config[s].id \o " (" \o banner_config[s].label \o ")"]
        /\ \A k \in DOMAIN Cross(j) : Len(Cross(j)[k]) = 1 + Len(banner_config)
        /\ \A s \in DOMAIN banner_config :
              /\ BaseN(j, s) = Cardinality(Respondents(questions[j], banner_config[s]))
              /\ questions[j]["question_type"] = "single" =>
                    \A a \in PlainCodes(questions[j]) :
                        Shown(j, questions[j]["display_structure"][a][2], s)
                          = Answering(questions[j], banner_config[s],
                                      questions[j]["display_structure"][a][3].v)

\* A table over the segments Male then Total where the two segments differ on a
\* code row.
C12_Witness ==
    \E j \in DOMAIN results :
        /\ banner_config = <<Male, Total>>
        /\ results[j].columns = <<"Label", "B (Male)", "A (Total)">>
        /\ questions[j]["question_type"] = "single"
        /\ PlainCodes(questions[j]) # {}
        /\ Shown(j, "Female", 1) = 0
        /\ Shown(j, "Female", 2) = 1
        /\ Shown(j, "Male", 1) = 1

-----------------------------------------------------------------------------
(* C13 *)

\* Row k of table j is a percent sub-row: its label cell is empty.
IsPercentRow(j, k) == Cross(j)[k][1] = ""

\* Some segment produced a non-empty percent string for the label of count row
\* k: a counted 'code' or list 'net' row of a single or multi question, the
\* Sigma row, or a No Answer row with a positive count in some segment.
ProducesPercent(j, k) ==
    /\ banner_config # <<>>
    /\ \/ /\ questions[j]["question_type"] \in {"single", "multi"}
          /\ \E a \in DOMAIN questions[j]["display_structure"] :
                LET e == questions[j]["display_structure"][a]
                IN /\ e[2] = Cross(j)[k][1]
                   /\ e[1] = "code" \/ (e[1] = "net" /\ e[3].t = "list")
       \/ questions[j]["show_sigma"] /\ Cross(j)[k][1] = "Sigma"
       \/ /\ questions[j]["show_sigma"]
          /\ Cross(j)[k][1] = "No Answer"
          /\ \E s \in DOMAIN banner_config : Cross(j)[k][s + 1] > 0

\* C13: a percent sub-row appears only immediately after the count sub-row of a
\* content label, has a non-empty percent in some segment, and follows a count
\* sub-row exactly when some segment produced a percent for the label.
C13_PercentSubRows ==
    \A j \in DOMAIN results :
        \A k \in DOMAIN Cross(j) :
            /\ IsPercentRow(j, k) =>
                  /\ k >= 3
                  /\ ~IsPercentRow(j, k - 1)
                  /\ \E s \in DOMAIN banner_config : Cross(j)[k][s + 1] # ""
            /\ (k >= 2 /\ ~IsPercentRow(j, k)) =>
                  (ProducesPercent(j, k) <=> (k < Len(Cross(j)) /\ IsPercentRow(j, k + 1)))

\* A table whose No Answer row has a percent in one segment only and whose
\* Mean row has no percent sub-row.
C13_Witness ==
    \E j \in DOMAIN results :
        /\ Len(banner_config) = 2
        /\ \E k \in DOMAIN Cross(j) :
              /\ Cross(j)[k][1] = "No Answer"
              /\ k < Len(Cross(j))
              /\ IsPercentRow(j, k + 1)
              /\ Cross(j)[k + 1][2] # ""
              /\ Cross(j)[k + 1][3] = ""
        /\ \E m \in DOMAIN Cross(j) :
              /\ Cross(j)[m][1] = "Mean"
              /\ m < Len(Cross(j))
              /\ ~IsPercentRow(j, m + 1)

-----------------------------------------------------------------------------
(* C14 *)

\* The number of rows of table j that carry the label.
RowsLabelled(j, label) ==
    Cardinality({k \in DOMAIN Cross(j) : Cross(j)[k][1] = label})

\* The number of display_structure rows declared under the label.
DeclaredUnder(q, label) ==
    Cardinality({a \in DOMAIN q["display_structure"] : q["display_structure"][a][2] = label})

\* C14 as stated: without show_sigma the table has no row labelled "No Answer"
\* and no row labelled "Sigma".
C14_NoSigmaRows ==
    \A j \in DOMAIN results :
        ~questions[j]["show_sigma"] =>
            ~HasRow(j, "No Answer") /\ ~HasRow(j, "Sigma")

\* C14 (amended): without show_sigma the only rows labelled "No Answer" or
\* "Sigma" are the rows display_structure declares under these labels, and the
\* reconciliation is not run: its KeyError on an absent indicator column is
\* raised only for a question with show_sigma.
C14_NoDerivedRows ==
    /\ \A j \in DOMAIN results :
          ~questions[j]["show_sigma"] =>
              /\ RowsLabelled(j, "No Answer") = DeclaredUnder(questions[j], "No Answer")
              /\ RowsLabelled(j, "Sigma") = DeclaredUnder(questions[j], "Sigma")
    /\ (/\ pc = "raised"
        /\ err = "KeyError"
        /\ QuestionFields \subseteq DOMAIN questions[i + 1])
       => questions[i + 1]["show_sigma"]

\* A table without show_sigma that declares a row "No Answer" and whose segment
\* has a respondent with no answer.
C14_Witness ==
    \E j \in DOMAIN results :
        /\ ~questions[j]["show_sigma"]
        /\ questions[j]["display_structure"] = ReservedRows
        /\ banner_config # <<>>
        /\ BaseN(j, 1) >= 1
        /\ RowsLabelled(j, "No Answer") = 1
        /\ Shown(j, "No Answer", 1) = 0
        /\ Shown(j, "Sigma", 1) = 0

-----------------------------------------------------------------------------
(* C15 *)

\* The running total of a segment: the sum of the counts of the 'code' rows.
RunningTotal(q, seg) ==
    IF q["question_type"] = "single" THEN CodeSum(q, seg)
    ELSE IF q["question_type"] = "multi"
    THEN SumSeq([a \in DOMAIN q["display_structure"] |->
                   LET e == q["display_structure"][a]
                   IN IF e[1] = "code" /\ e[3].v \in data.columns
                      THEN Cardinality({k \in Respondents(q, seg) : data.rows[k][e[3].v] = 1})
                      ELSE 0])
    ELSE 0

\* In every segment the Sigma count is the running total plus the No Answer
\* count (the latter read from the table when no declared row is labelled
\* "No Answer").
SigmaIsTotalPlusNoAnswer(j) ==
    \A s \in DOMAIN banner_config :
        "No Answer" \notin DeclaredLabels(questions[j]) =>
            Shown(j, "Sigma", s)
              = RunningTotal(questions[j], banner_config[s]) + ShownOrZero(j, "No Answer", s)

\* C15: with show_sigma the table always has a "Sigma" row, for every question
\* type and also with a base of 0, and in every segment its count is the
\* running total plus the No Answer count.
C15_SigmaAlways ==
    \A j \in DOMAIN results :
        questions[j]["show_sigma"] =>
            /\ HasRow(j, "Sigma")
            /\ SigmaIsTotalPlusNoAnswer(j)

-----------------------------------------------------------------------------
(* C19 *)

\* A question record complete but for its base_filter or its mean_var key.
LacksOptionalField(q) ==
    /\ ~(QuestionFields \subseteq DOMAIN q)
    /\ QuestionFields \subseteq (DOMAIN q) \cup {"base_filter", "mean_var"}

\* C19: a question record whose base_filter or mean_var is None or absent is
\* tabulated without error (no exception other than that of a failing segment
\* condition), None meaning no base filter and no statistics rows.
C19_NoneOrAbsentTolerated ==
    /\ (pc = "raised" /\ LacksOptionalField(questions[i + 1]))
          => \E s \in DOMAIN banner_config : ExprFails(banner_config[s].condition)
    /\ \A j \in DOMAIN results :
          /\ questions[j]["base_filter"] = NoExpr =>
                \A s \in DOMAIN banner_config :
                    BaseN(j, s)
                      = Cardinality({k \in DOMAIN data.rows :
                                       Passes(data.rows[k], banner_config[s].condition)})
          /\ questions[j]["mean_var"] = None =>
                \A stat \in {"Mean", "Std.err", "Std.dev", "Median"} : ~HasRow(j, stat)

-----------------------------------------------------------------------------
(* C20 *)

\* The positions of the "#page" rows of the returned frame: one per table.
PagePositions == {k \in DOMAIN returned.final_df : returned.final_df[k][1] = "#page"}

\* The position of the "#page" row of the j-th table.
PageOf(j) ==
    CHOOSE p \in PagePositions : Cardinality({x \in PagePositions : x < p}) = j - 1

\* The j-th table of the returned frame belongs to the j-th question: its
\* metadata line is "Table j", its crosstab starts with the Base row of the
\* question's respondents and goes on with the question's first declared label.
TableOfQuestion(j) ==
    /\ returned.final_df[PageOf(j) + 4][1] = "Table " \o ToString(j)
    /\ returned.final_df[PageOf(j) + 10]
         = <<"Base">> \o [s \in DOMAIN banner_config |->
                Cardinality(Respondents(questions[j], banner_config[s]))]
    /\ questions[j]["display_structure"] # <<>> =>
          returned.final_df[PageOf(j) + 11][1] = questions[j]["display_structure"][1][2]

\* C20: generate_tables returns (None, None) and writes no file for an empty
\* question list; otherwise what it returns is the tables of the questions
\* concatenated in the order of the list, the i-th carrying "Table i", written
\* to both output files.
C20_ReturnValue ==
    pc = "done" =>
        IF questions = <<>>
        THEN /\ returned = [kind |-> "none", final_df |-> <<>>, file_name |-> ""]
             /\ files = EmptyDict
        ELSE /\ returned.kind = "tables"
             /\ returned.file_name = file_name
             /\ Cardinality(PagePositions) = Len(questions)
             /\ \A j \in DOMAIN questions : TableOfQuestion(j)
             /\ DOMAIN files = {file_name, "tab_output.csv"}
             /\ \A f \in DOMAIN files : files[f] = returned.final_df

\* Two different questions tabulated and returned as one frame.
C20_Witness ==
    /\ pc = "done"
    /\ Len(questions) = 2
    /\ questions[1]["display_structure"] # <<>>
    /\ questions[2]["display_structure"] = <<>>
    /\ banner_config # <<>>
    /\ data.rows # <<>>
    /\ returned.kind = "tables"
    /\ Cardinality(PagePositions) = 2

-----------------------------------------------------------------------------
(* C16 *)

\* C16: the calls of generate_crosstab that have returned, on one TabGenerator
\* or on two TabGenerators built from the same dataset and question, returned
\* identical results: the same header, rows and cells (or the same exception).
C16_Idempotent ==
    \A g \in DOMAIN tgs, h \in DOMAIN tgs :
        questions[g] = questions[h] =>
            \A a \in DOMAIN tgs[g].out, b \in DOMAIN tgs[h].out :
                tgs[g].out[a] = tgs[h].out[b]

\* A generator called twice and a second generator of the same question called
\* once, each returning a table of two segments with different bases.
C16_Witness ==
    \E g \in DOMAIN tgs, h \in DOMAIN tgs :
        /\ g # h
        /\ questions[g] = questions[h]
        /\ Len(tgs[g].out) = 2
        /\ Len(tgs[h].out) >= 1
        /\ tgs[g].out[2].err = "none"
        /\ Len(tgs[g].out[2].rows) > 3
        /\ Len(banner_config) = 2
        /\ tgs[g].out[2].rows[1][2] > tgs[g].out[2].rows[1][3]
        /\ tgs[g].out[2].rows[1][3] >= 1

-----------------------------------------------------------------------------
(* C17 *)

\* C17: no step of constructing a TabGenerator or of running generate_crosstab,
\* a step that ends the call with an exception included, changes the caller's
\* dataset, the questions' display_structure or the banner segment list.
C17_CallerStateUnchanged ==
    [][/\ data' = data
       /\ questions' = questions
       /\ banner_config' = banner_config]_vars

\* One call has ended with an exception and another has returned a table, over
\* a dataset with rows.
C17_Witness ==
    \E g \in DOMAIN tgs, h \in DOMAIN tgs :
        /\ tgs[g].out # <<>>
        /\ tgs[g].out[1].err # "none"
        /\ tgs[h].out # <<>>
        /\ tgs[h].out[1].err = "none"
        /\ tgs[h].self.show_sigma
        /\ Len(tgs[h].out[1].rows) > 3
        /\ data.rows # <<>>

-----------------------------------------------------------------------------
(* C18 *)

\* Every call that has returned, whatever it was interleaved with and whatever
\* the position of its question, returned what generate_crosstab returns for
\* the question tabulated alone.
SameAsAlone ==
    \A g \in DOMAIN tgs :
        \A c \in DOMAIN tgs[g].out :
            tgs[g].out[c]
              = generate_crosstab(TabGenerator(data, questions[g], 1), banner_config)

\* A step that changes one generator changes no other generator and not the
\* dataset they were built from.
WritesOwnStateOnly ==
    \A g \in DOMAIN tgs :
        tgs'[g] # tgs[g] =>
            /\ data' = data
            /\ \A h \in DOMAIN tgs : h # g => tgs'[h] = tgs[h]

\* C18: the tabulation of a question is independent of the tabulation of the
\* others: a table is the same alone, at any position and interleaved, and no
\* step of one question's generation writes state another's reads.
C18_Independent == []SameAsAlone /\ [][WritesOwnStateOnly]_vars

\* Two calls on the generators of two different questions are in progress at
\* once, after one of them has already returned a table.
C18_Witness ==
    \E g \in DOMAIN tgs, h \in DOMAIN tgs :
        /\ questions[g] # questions[h]
        /\ tgs[g].at = "loop"
        /\ tgs[h].at = "loop"
        /\ tgs[g].pos = 1
        /\ tgs[h].pos = 1
        /\ Len(banner_config) = 2
        /\ tgs[h].out # <<>>
        /\ tgs[h].out[1].err = "none"
        /\ data.rows # <<>>

-----------------------------------------------------------------------------
(* C21 *)

\* The rows of the dataset that satisfy base_filter and the segment's condition,
\* an expression that is None or empty filtering nothing.
SubsetOf(q, seg) ==
    {k \in DOMAIN data.rows :
        /\ Truthy(q["base_filter"]) =>
              data.rows[k][q["base_filter"].col] = q["base_filter"].val
        /\ Truthy(seg.condition) => data.rows[k][seg.condition.col] = seg.condition.val}

\* Tabulating question q cannot fail for a reason other than an empty subset:
\* its record is complete, its expressions evaluate, and reconciliation finds
\* every indicator column it selects.
NoOtherFailure(q) ==
    /\ QuestionFields \subseteq DOMAIN q
    /\ ~ExprFails(q["base_filter"])
    /\ \A s \in DOMAIN banner_config : ~ExprFails(banner_config[s].condition)
    /\ ~NamesAbsentColumn(q)

\* C21: base_n of every segment is the number of rows that satisfy base_filter
\* and the segment's condition (None or empty: no filtering), the rows counted
\* under a code of a single question are rows of that subset, and an empty
\* subset raises nothing.
C21_SubsetAndBase ==
    /\ \A j \in DOMAIN results :
          \A s \in DOMAIN banner_config :
              /\ BaseN(j, s) = Cardinality(SubsetOf(questions[j], banner_config[s]))
              /\ questions[j]["question_type"] = "single" =>
                    \A a \in PlainCodes(questions[j]) :
                        Shown(j, questions[j]["display_structure"][a][2], s)
                          = Cardinality({k \in SubsetOf(questions[j], banner_config[s]) :
                                data.rows[k][questions[j]["question_var"].v]
                                  = questions[j]["display_structure"][a][3].v})
    /\ (pc = "raised" /\ i < Len(questions)) => ~NoOtherFailure(questions[i + 1])

\* A table with a base filter whose first segment has respondents and whose
\* second segment, filtered twice, has none.
C21_Witness ==
    \E j \in DOMAIN results :
        /\ questions[j]["base_filter"] = EqExpr("Gender", 2)
        /\ questions[j]["show_sigma"]
        /\ questions[j]["mean_var"] = PyStr("Gender")
        /\ questions[j]["display_structure"] # <<>>
        /\ banner_config = <<Total, Male>>
        /\ Len(data.rows) = 2
        /\ BaseN(j, 1) = 1
        /\ BaseN(j, 2) = 0

-----------------------------------------------------------------------------
(* C22 *)

\* max(0, base_n - running_total), and 0 for an empty segment.
SingleNoAnswer(base_n, running_total) ==
    IF base_n = 0 \/ base_n - running_total < 0 THEN 0 ELSE base_n - running_total

\* C22: for a single question with show_sigma, in every segment the No Answer
\* count is 0 for a base of 0 and max(0, base_n - running_total) otherwise, the
\* running total being the sum of the counts of the 'code' rows alone, whatever
\* 'net' rows are declared; Sigma is the running total plus that count.
C22_SingleNoAnswer ==
    \A j \in DOMAIN results :
        (/\ questions[j]["question_type"] = "single"
         /\ questions[j]["show_sigma"]
         /\ TripleRows(questions[j])
         /\ ~ForeignCode(questions[j]))
        => \A s \in DOMAIN banner_config :
              /\ Shown(j, "Sigma", s)
                   = CodeSum(questions[j], banner_config[s])
                     + SingleNoAnswer(BaseN(j, s), CodeSum(questions[j], banner_config[s]))
              /\ "No Answer" \notin DeclaredLabels(questions[j]) =>
                    ShownOrZero(j, "No Answer", s)
                      = SingleNoAnswer(BaseN(j, s), CodeSum(questions[j], banner_config[s]))

\* A single question with a counted code and a counted net where one respondent
\* of the segment has no answer.
C22_Witness ==
    \E j \in DOMAIN results :
        /\ questions[j]["question_type"] = "single"
        /\ questions[j]["show_sigma"]
        /\ \E a \in DOMAIN questions[j]["display_structure"] :
              /\ questions[j]["display_structure"][a][1] = "net"
              /\ Shown(j, questions[j]["display_structure"][a][2], 1) = 1
        /\ \E a \in DOMAIN questions[j]["display_structure"] :
              questions[j]["display_structure"][a][1] = "code"
        /\ "No Answer" \notin DeclaredLabels(questions[j])
        /\ BaseN(j, 1) = 2
        /\ CodeSum(questions[j], banner_config[1]) = 1
        /\ Shown(j, "No Answer", 1) = 1
        /\ Shown(j, "Sigma", 1) = 2

-----------------------------------------------------------------------------
(* C23 *)

\* The respondents of a segment with some indicator column of the question
\* (a column of question_var) equal to 1.
AnsweredRespondents(q, seg) ==
    {k \in Respondents(q, seg) :
        \E m \in DOMAIN q["question_var"].v :
            /\ q["question_var"].v[m] \in data.columns
            /\ data.rows[k][q["question_var"].v[m]] = 1}

\* C23: for a multi question with show_sigma, in every segment the No Answer
\* count is base_n minus the respondents with any indicator column of
\* question_var equal to 1, whichever columns display_structure lists as 'code'
\* rows or only inside 'net' rows, and lies between 0 and base_n.
C23_MultiNoAnswer ==
    \A j \in DOMAIN results :
        (/\ questions[j]["question_type"] = "multi"
         /\ questions[j]["show_sigma"]
         /\ TripleRows(questions[j]))
        => \A s \in DOMAIN banner_config :
              /\ ShownOrZero(j, "No Answer", s)
                   = BaseN(j, s)
                     - Cardinality(AnsweredRespondents(questions[j], banner_config[s]))
              /\ ShownOrZero(j, "No Answer", s) >= 0
              /\ ShownOrZero(j, "No Answer", s) <= BaseN(j, s)

-----------------------------------------------------------------------------
(* C24 *)

\* Question q declares the net over both indicator columns.
DeclaresNet(q) ==
    \E a \in DOMAIN q["display_structure"] : q["display_structure"][a] = ExampleEntries[3]

\* C24: over the rows [1,1], [1,0], [0,0], [0,0], a multi question with
\* show_sigma and a net over A_1 and A_2 reports, in an unfiltered segment,
\* Base 4, net count 3 and No Answer 2, whether or not A_1 and A_2 are also
\* listed as 'code' rows.
C24_WorkedExample ==
    \A j \in DOMAIN results :
        (/\ data.rows = ExampleRows
         /\ questions[j]["question_type"] = "multi"
         /\ questions[j]["show_sigma"]
         /\ DeclaresNet(questions[j]))
        => \A s \in DOMAIN banner_config :
              banner_config[s].condition = NoExpr =>
                  /\ BaseN(j, s) = 4
                  /\ Shown(j, "Any", s) = 3
                  /\ ShownOrZero(j, "No Answer", s) = 2

-----------------------------------------------------------------------------
(* C25 *)

\* The No Answer count of a segment of a question: for a single question base_n
\* less the counts of its 'code' rows, never below 0; for a multi question
\* base_n less the respondents with an indicator column equal to 1; 0 for every
\* other type and for an empty segment.
NoAnswerOf(q, seg) ==
    IF q["question_type"] = "single"
    THEN SingleNoAnswer(Cardinality(Respondents(q, seg)), CodeSum(q, seg))
    ELSE IF q["question_type"] = "multi"
    THEN Cardinality(Respondents(q, seg)) - Cardinality(AnsweredRespondents(q, seg))
    ELSE 0

\* C25: a table has a "No Answer" row exactly when show_sigma is on and the No
\* Answer count of some segment is positive; it has none when every segment is
\* empty, and none for an open_numeric question.
C25_NoAnswerRow ==
    \A j \in DOMAIN results :
        (TripleRows(questions[j]) /\ ~ForeignCode(questions[j]))
        => /\ HasRow(j, "No Answer")
                <=> /\ questions[j]["show_sigma"]
                    /\ \E s \in DOMAIN banner_config :
                          NoAnswerOf(questions[j], banner_config[s]) > 0
           /\ (\A s \in DOMAIN banner_config : BaseN(j, s) = 0)
                => ~HasRow(j, "No Answer")
           /\ questions[j]["question_type"] = "open_numeric" => ~HasRow(j, "No Answer")

-----------------------------------------------------------------------------
(* C26 *)

\* The hundredth nearest to count * 10000 / base_n (0 for a base of 0).
NearestHundredth(count, base_n) ==
    IF base_n = 0 THEN 0
    ELSE CHOOSE h \in 0..((count * 10000) \div base_n + 1) :
            /\ 2 * (h * base_n - count * 10000) <= base_n
            /\ 2 * (count * 10000 - h * base_n) < base_n

\* h hundredths written with exactly two decimal digits and a trailing '%'.
TwoDecimalPercent(h) ==
    ToString(h \div 100) \o "." \o (IF h % 100 < 10 THEN "0" ELSE "")
        \o ToString(h % 100) \o "%"

\* C26: every non-empty cell of a percent sub-row is round(count * 10000 /
\* base_n) / 100 (0 for a base of 0) of the count in the row above and the base
\* of its segment, written with two decimal digits and '%'; a count equal to a
\* positive base gives "100.00%" and a count of 0 gives "0.00%".
C26_PercentCells ==
    \A j \in DOMAIN results :
        \A k \in 2..Len(Cross(j)) :
            IsPercentRow(j, k) =>
                \A s \in DOMAIN banner_config :
                    Cross(j)[k][s + 1] # "" =>
                        /\ Cross(j)[k][s + 1]
                             = TwoDecimalPercent(
                                   NearestHundredth(Cross(j)[k - 1][s + 1], BaseN(j, s)))
                        /\ (BaseN(j, s) > 0 /\ Cross(j)[k - 1][s + 1] = BaseN(j, s))
                              => Cross(j)[k][s + 1] = "100.00%"
                        /\ Cross(j)[k - 1][s + 1] = 0 => Cross(j)[k][s + 1] = "0.00%"

\* A table over three respondents showing two thirds, one third and all of them.
C26_Witness ==
    \E j \in DOMAIN results :
        /\ BaseN(j, 1) = 3
        /\ \E k \in 2..Len(Cross(j)) :
              IsPercentRow(j, k) /\ Cross(j)[k - 1][2] = 2 /\ Cross(j)[k][2] = "66.67%"
        /\ \E k \in 2..Len(Cross(j)) :
              IsPercentRow(j, k) /\ Cross(j)[k - 1][2] = 1 /\ Cross(j)[k][2] = "33.33%"
        /\ \E k \in 2..Len(Cross(j)) :
              IsPercentRow(j, k) /\ Cross(j)[k - 1][2] = 3 /\ Cross(j)[k][2] = "100.00%"

-----------------------------------------------------------------------------
(* C27 *)

StatsLabels == <<"Mean", "Std.err", "Std.dev", "Median">>

\* The question declares a mean_var that is a column of the dataset.
DeclaresStats(q) == q["mean_var"].t = "str" /\ q["mean_var"].v \in data.columns

\* Table j has the four statistics rows once each, one after the other in
\* order, and no percent sub-row follows any of them.
StatsRowsTogether(j) ==
    \E k \in DOMAIN Cross(j) :
        /\ k + 3 <= Len(Cross(j))
        /\ \A m \in 1..4 : Cross(j)[k + m - 1][1] = StatsLabels[m]
        /\ k + 4 <= Len(Cross(j)) => ~IsPercentRow(j, k + 4)
        /\ \A n \in DOMAIN Cross(j) :
              (\E m \in 1..4 : Cross(j)[n][1] = StatsLabels[m]) => n \in k..(k + 3)

\* C27: a table has the rows "Mean", "Std.err", "Std.dev", "Median" (together,
\* in that order, without percent sub-rows) exactly when the question declares a
\* mean_var that is a column of the dataset, and otherwise none of them,
\* whatever question_type and show_sigma are.
C27_StatsRows ==
    \A j \in DOMAIN results :
        IF DeclaresStats(questions[j])
        THEN StatsRowsTogether(j)
        ELSE \A m \in 1..4 : ~HasRow(j, StatsLabels[m])

-----------------------------------------------------------------------------
(* C28 *)

\* A string that is empty or made of blanks only.
BlankText(s) == \A k \in DOMAIN s : s[k] = " "

\* A string with a character that belongs to no number.
ForeignText(s) ==
    \E k \in DOMAIN s : s[k] \notin {" ", "0", "1", "2", "3", "4", "5", "6", "7", "8", "9"}

\* C28: clean_blank_and_convert_to_numeric does not fail and keeps the rows and
\* the columns of the frame; afterwards the columns date, markers, record and
\* uuid hold their original values, and every cell of every other column is a
\* number or missing, an empty, blank or non-convertible cell being missing.
C28_CleanKeepsShape ==
    [][pc = "raw" =>
        /\ pc' = "clean"
        /\ err' = "none"
        /\ data'.columns = data.columns
        /\ Len(data'.rows) = Len(data.rows)
        /\ returned'.final_df = data'.rows
        /\ \A k \in DOMAIN data.rows :
              /\ DOMAIN data'.rows[k] = data.columns
              /\ \A c \in data.columns :
                    IF c \in {"date", "markers", "record", "uuid"}
                    THEN data'.rows[k][c] = data.rows[k][c]
                    ELSE /\ data'.rows[k][c].t \in {"int", "nan"}
                         /\ (/\ data.rows[k][c].t = "str"
                             /\ BlankText(data.rows[k][c].v) \/ ForeignText(data.rows[k][c].v))
                            => data'.rows[k][c].t = "nan"]_vars

\* A cleaned frame whose blank answer became missing beside a blank uuid that
\* was kept, and whose second answer was read from text.
C28_Witness ==
    /\ pc = "clean"
    /\ data.columns = {"uuid", "Q1"}
    /\ Len(data.rows) = 2
    /\ data.rows[1] = [uuid |-> PyStr(<<" ">>), Q1 |-> PyNaN]
    /\ data.rows[2] = [uuid |-> PyStr(<<"a">>), Q1 |-> PyInt(1)]

-----------------------------------------------------------------------------
(* C29 *)

\* C29: generate_tables writes its output files only after every question of
\* the batch has been tabulated: while the loop runs and after a question has
\* raised no file has been written, and a call that raised returns nothing.
C29_WritesAfterAll ==
    /\ files # EmptyDict =>
          /\ pc = "done"
          /\ i = Len(questions)
          /\ Len(results) = Len(questions)
    /\ pc = "raised" =>
          /\ files = EmptyDict
          /\ returned = NothingReturned

\* The second question of a batch raised after the first had been tabulated.
C29_Witness ==
    /\ pc = "raised"
    /\ Len(questions) = 2
    /\ i = 1
    /\ banner_config # <<>>
    /\ data.rows # <<>>
    /\ files = EmptyDict

-----------------------------------------------------------------------------
(* C30 *)

\* The positions of the 'code' rows of q.
CodeRows(q) ==
    {a \in DOMAIN q["display_structure"] : q["display_structure"][a][1] = "code"}

\* Every 'code' row of q names a column of the dataset that holds only 0, 1 or
\* a missing value.
IndicatorCodes(q) ==
    \A a \in CodeRows(q) :
        /\ q["display_structure"][a][3].t = "str"
        /\ q["display_structure"][a][3].v \in data.columns
        /\ \A k \in DOMAIN data.rows :
              data.rows[k][q["display_structure"][a][3].v] \in {0, 1, NaN}

\* The 'code' rows of q whose column is 1 for respondent k.
Ticked(q, k) ==
    {a \in CodeRows(q) : data.rows[k][q["display_structure"][a][3].v] = 1}

\* C30: for a multi question with show_sigma whose 'code' columns are columns
\* of the dataset holding only 0, 1 or missing, in every segment the Sigma
\* count is at least base_n, and equals base_n exactly when no respondent of
\* the segment has more than one code column equal to 1.
C30_SigmaAtLeastBase ==
    \A j \in DOMAIN results :
        (/\ questions[j]["question_type"] = "multi"
         /\ questions[j]["show_sigma"]
         /\ TripleRows(questions[j])
         /\ IndicatorCodes(questions[j]))
        => \A s \in DOMAIN banner_config :
              /\ Shown(j, "Sigma", s) >= BaseN(j, s)
              /\ Shown(j, "Sigma", s) = BaseN(j, s)
                    <=> \A k \in Respondents(questions[j], banner_config[s]) :
                            Cardinality(Ticked(questions[j], k)) <= 1

====
